---- MODULE Spec2Model ----
(***************************************************************************)
(* The deployment pipeline of ssh-deploy-release (src/ssh-deploy-release.js) *)
(* as a state machine: the two async.series task lists of deployRelease and  *)
(* removeRelease, every task, and every callback a task hands to the remote, *)
(* the archiver or a user hook.                                              *)
(*                                                                           *)
(* async.series calls task n+1 from inside the completion callback of task   *)
(* n.  The model takes that call as a step of its own (phase = "call"): in   *)
(* such a state nothing but the called task is enabled, so the split adds no *)
(* interleaving.                                                             *)
(***************************************************************************)
EXTENDS Naturals, Integers, Sequences, FiniteSets, TLC

\* ------------------------------------------------------------------ bounds

\* Releases already on the remote before the run: any set of tags of 1..MaxOld.
MaxOld == 3
\* options.releasesToKeep ranges over 0..MaxKeep.
MaxKeep == 2
\* How many of the option groups (transfer, lists, retention, middleware)
\* differ from the default options in one configuration.
MaxVaried == 2

\* ------------------------------------------------------------- task lists

\* deployRelease's list with the shared symlinks made before the unpack.
DeployTasksLinkBeforeUnpack ==
    << "connectToRemoteTask",
       "onBeforeDeployTask",
       "onBeforeDeployExecuteTask",
       "compressReleaseTask",
       "createReleaseFolderOnRemoteTask",
       "uploadArchiveTask",
       "uploadReleaseTask",
       "updateSharedSymbolicLinkOnRemoteTask",
       "decompressArchiveOnRemoteTask",
       "onBeforeLinkTask",
       "onBeforeLinkExecuteTask",
       "createFolderTask",
       "makeDirectoriesWritableTask",
       "makeFilesExecutableTask",
       "updateCurrentSymbolicLinkOnRemoteTask",
       "onAfterDeployTask",
       "onAfterDeployExecuteTask",
       "remoteCleanupTask",
       "deleteLocalArchiveTask",
       "closeConnectionTask" >>

\* deployRelease's list with the cleanup ahead of the current-symlink swap.
DeployTasksCleanupBeforeSwap ==
    << "connectToRemoteTask",
       "onBeforeDeployTask",
       "onBeforeDeployExecuteTask",
       "compressReleaseTask",
       "createReleaseFolderOnRemoteTask",
       "uploadArchiveTask",
       "uploadReleaseTask",
       "decompressArchiveOnRemoteTask",
       "onBeforeLinkTask",
       "onBeforeLinkExecuteTask",
       "updateSharedSymbolicLinkOnRemoteTask",
       "createFolderTask",
       "makeDirectoriesWritableTask",
       "makeFilesExecutableTask",
       "remoteCleanupTask",
       "updateCurrentSymbolicLinkOnRemoteTask",
       "onAfterDeployTask",
       "onAfterDeployExecuteTask",
       "deleteLocalArchiveTask",
       "closeConnectionTask" >>

\* deployRelease's list with the local archive deleted right after the upload.
DeployTasksDeleteAfterUpload ==
    << "connectToRemoteTask",
       "onBeforeDeployTask",
       "onBeforeDeployExecuteTask",
       "compressReleaseTask",
       "createReleaseFolderOnRemoteTask",
       "uploadArchiveTask",
       "deleteLocalArchiveTask",
       "uploadReleaseTask",
       "decompressArchiveOnRemoteTask",
       "onBeforeLinkTask",
       "onBeforeLinkExecuteTask",
       "updateSharedSymbolicLinkOnRemoteTask",
       "createFolderTask",
       "makeDirectoriesWritableTask",
       "makeFilesExecutableTask",
       "updateCurrentSymbolicLinkOnRemoteTask",
       "onAfterDeployTask",
       "onAfterDeployExecuteTask",
       "remoteCleanupTask",
       "closeConnectionTask" >>

DeployTasks ==
    << "connectToRemoteTask",
       "onBeforeDeployTask",
       "onBeforeDeployExecuteTask",
       "compressReleaseTask",
       "createReleaseFolderOnRemoteTask",
       "uploadArchiveTask",
       "uploadReleaseTask",
       "decompressArchiveOnRemoteTask",
       "onBeforeLinkTask",
       "onBeforeLinkExecuteTask",
       "updateSharedSymbolicLinkOnRemoteTask",
       "createFolderTask",
       "makeDirectoriesWritableTask",
       "makeFilesExecutableTask",
       "updateCurrentSymbolicLinkOnRemoteTask",
       "onAfterDeployTask",
       "onAfterDeployExecuteTask",
       "remoteCleanupTask",
       "deleteLocalArchiveTask",
       "closeConnectionTask" >>

\* removeRelease's list with the connection closed before the removal.
RemoveTasksCloseFirst ==
    << "connectToRemoteTask",
       "closeConnectionTask",
       "removeReleaseTask" >>

RemoveTasks ==
    << "connectToRemoteTask",
       "removeReleaseTask",
       "closeConnectionTask" >>

\* ------------------------------------------------------- option values

\* An optional option value: absent (undefined), a list, a mapping (object
\* whose keys are iterated in insertion order) or a function of the context
\* returning `items` (returnsList = FALSE: it returns nothing).
Absent       == [kind |-> "absent",   items |-> << >>, returnsList |-> FALSE]
List(s)      == [kind |-> "list",     items |-> s,     returnsList |-> TRUE]
Mapping(s)   == [kind |-> "mapping",  items |-> s,     returnsList |-> TRUE]
Function(s)  == [kind |-> "function", items |-> s,     returnsList |-> TRUE]
FunctionVoid == [kind |-> "function", items |-> << >>, returnsList |-> FALSE]

\* JavaScript `!v` for an option value.
Not(v) == v.kind = "absent"

\* JavaScript `v.length == 0`: an object that is no array has no length, and
\* undefined == 0 is false.
LengthIsZero(v) == v.kind = "list" /\ Len(v.items) = 0

\* A bare item of a create / makeWritable / makeExecutable list or a command.
Item(name) == [key |-> name, symlink |-> name, hasMode |-> FALSE, mode |-> ""]
\* A share entry: key ==> symlink name, or key ==> {symlink, mode}.
Share(key, symlink) == [key |-> key, symlink |-> symlink, hasMode |-> FALSE, mode |-> ""]
ShareMode(key, symlink, mode) == [key |-> key, symlink |-> symlink, hasMode |-> TRUE, mode |-> mode]

\* JavaScript `!mode` for the mode of a share entry: mode stays null when the
\* entry gives none, and an empty string is falsy.
NotMode(e) == ~e.hasMode \/ e.mode = ""

Modes        == {"archive", "synchronize", "other"}
ArchiveTypes == {"zip", "tar", "rar"}

\* The release being deployed carries the newest tag: tags are generated in
\* increasing order, so it sorts after every release already on the remote.
ReleaseTag == MaxOld + 1
NoRelease  == 0

\* The option groups and the values each ranges over.
Groups == {"transfer", "share", "create", "makeWritable", "makeExecutable",
           "retention", "onBeforeDeployExecute", "onBeforeLinkExecute",
           "onAfterDeployExecute"}

TransferValues ==
    [mode : Modes, archiveType : ArchiveTypes,
     deleteLocalArchiveAfterDeployment : BOOLEAN]
DefaultTransfer ==
    [mode |-> "archive", archiveType |-> "tar",
     deleteLocalArchiveAfterDeployment |-> TRUE]

ShareValues ==
    { Absent, Mapping(<< >>),
      Mapping(<< Share("logs", "logs") >>),
      Mapping(<< ShareMode("upload", "app/upload", "ugo+w"), Share("logs", "logs") >>),
      Mapping(<< ShareMode("cache", "cache", ""), Share("logs", "logs") >>) }
CreateValues == { Absent, List(<< >>), List(<< Item("tmp"), Item("cache") >>) }
WritableValues == { Absent, List(<< >>), List(<< Item("tmp") >>) }
ExecutableValues == { Absent, List(<< >>), List(<< Item("bin/run") >>) }

RetentionValues == [releasesToKeep : 0 .. MaxKeep, existing : SUBSET (1 .. MaxOld)]
DefaultRetention == [releasesToKeep |-> 1, existing |-> {1}]

\* The newest of a set of releases: the one the current symlink points to
\* once it has been deployed.
Newest(releases) ==
    IF releases = {} THEN NoRelease
    ELSE CHOOSE f \in releases : \A g \in releases : g <= f

MiddlewareValues ==
    { Absent, List(<< >>), List(<< Item("cmd1"), Item("cmd2") >>),
      Function(<< Item("cmd1") >>), FunctionVoid }
MiddlewareFewValues == { Absent, List(<< Item("cmd1") >>) }

\* The values of group g in a configuration that varies the groups in D.
Pick(D, g, values, default) == IF g \in D THEN values ELSE {default}

\* ------------------------------------------------------------------ state

VARIABLES
    constructed,   \* the options as the constructor got them
    options,       \* this.options
    tasks,         \* the task list handed to async.series (<< >> before a run)
    idx,           \* the task async.series is at
    phase,         \* "idle", "call", "wait", "finished", "exited", "crashed"
    iter,          \* async.eachSeries of the running task: its list and position
    calls,         \* every call made to the remote, the archiver and the hooks
    inflight,      \* indices of the calls whose callback has not fired
    answers,       \* what each answered call was answered with, in order
    log,           \* logger output
    started,       \* the tasks async.series has called, in order
    completed,     \* the tasks that called their done, in order, with the error flag
    doneCalls,     \* the argument lists of the caller's done callback
    conn,          \* the connection: "none", "connecting", "open", "failed", "closing", "closed"
    folders,       \* tags of the release folders on the remote
    current,       \* tag the current symlink points to (NoRelease: none)
    content,       \* the new release folder: "none", "empty", "archive", "unpacked", "synced"
    pruning,       \* folders removeOldFolders still has to delete
    deleted,       \* release folders deleted from the remote during the run
    localArchive   \* the local archive file: "none", "present", "deleted"

vars == << constructed, options, tasks, idx, phase, iter, calls, inflight, answers, log, started,
           completed, doneCalls, conn, folders, current, content, pruning,
           deleted, localArchive >>

remoteState == << conn, folders, current, content, pruning, deleted >>

NoIter == [list |-> << >>, pos |-> 0]

Init ==
    \E D \in SUBSET Groups :
      /\ Cardinality(D) <= MaxVaried
      /\ \E t \in Pick(D, "transfer", TransferValues, DefaultTransfer),
            r \in Pick(D, "retention", RetentionValues, DefaultRetention),
            sh \in Pick(D, "share", ShareValues, Absent),
            cr \in Pick(D, "create", CreateValues, Absent),
            mw \in Pick(D, "makeWritable", WritableValues, Absent),
            mx \in Pick(D, "makeExecutable", ExecutableValues, Absent),
            bd \in Pick(D, "onBeforeDeployExecute", MiddlewareValues, Absent),
            bl \in Pick(D, "onBeforeLinkExecute", MiddlewareFewValues, Absent),
            ad \in Pick(D, "onAfterDeployExecute", MiddlewareFewValues, Absent) :
           /\ options =
                [mode |-> t.mode,
                 archiveType |-> t.archiveType,
                 deleteLocalArchiveAfterDeployment |-> t.deleteLocalArchiveAfterDeployment,
                 releasesToKeep |-> r.releasesToKeep,
                 share |-> sh,
                 create |-> cr,
                 makeWritable |-> mw,
                 makeExecutable |-> mx,
                 onBeforeDeployExecute |-> bd,
                 onBeforeLinkExecute |-> bl,
                 onAfterDeployExecute |-> ad]
           /\ folders = r.existing
           /\ current = Newest(r.existing)
      /\ constructed = options
      /\ tasks = << >>
      /\ idx = 0
      /\ phase = "idle"
      /\ iter = NoIter
      /\ calls = << >>
      /\ inflight = {}
      /\ answers = << >>
      /\ log = << >>
      /\ started = << >>
      /\ completed = << >>
      /\ doneCalls = << >>
      /\ conn = "none"
      /\ content = "none"
      /\ pruning = {}
      /\ deleted = {}
      /\ localArchive = "none"

\* ---------------------------------------------------------------- helpers

Call(stage, op, arg) == [stage |-> stage, op |-> op, arg |-> arg]
Line(stage, level, text) == [stage |-> stage, level |-> level, text |-> text]

\* async.series is about to call task t.
Begin(t) == phase = "call" /\ tasks[idx] = t
Start(t) == started' = Append(started, t)

\* The calls in flight made by `stage` with operation `op`.
Pending(stage, op) ==
    { i \in inflight : calls[i].stage = stage /\ calls[i].op = op }

\* A task makes call c and returns; its callback is outstanding.
Issue(c) ==
    /\ calls' = Append(calls, c)
    /\ inflight' = inflight \cup {Len(calls) + 1}
    /\ UNCHANGED answers
\* Call i is answered with result r: "ok", "error" (an error value), "" (an
\* empty error value) or "failed" (reported to the remote's onError handler).
Answer(i, r) ==
    /\ inflight' = inflight \ {i}
    /\ answers' = Append(answers, [call |-> i, result |-> r])
    /\ UNCHANGED calls
\* Call i is answered with r and its callback makes call c.
AnswerIssue(i, r, c) ==
    /\ calls' = Append(calls, c)
    /\ inflight' = (inflight \ {i}) \cup {Len(calls) + 1}
    /\ answers' = Append(answers, [call |-> i, result |-> r])
NoCall == UNCHANGED << calls, inflight, answers >>
\* Calls that return at once (pre), then none or one call that is waited for.
Record(pre) ==
    /\ calls' = calls \o pre
    /\ UNCHANGED << inflight, answers >>
IssueAfter(pre, c) ==
    /\ calls' = (calls \o pre) \o << c >>
    /\ inflight' = inflight \cup {Len(calls) + Len(pre) + 1}
    /\ UNCHANGED answers

Logs(lines) == log' = log \o lines

\* What the final callback of async.series hands to the caller's done; err
\* is whether a task passed an error.
SeriesFinalPassesError(err) == IF err THEN << "error" >> ELSE << >>
SeriesFinal(err) == << >>

SeriesCallbackIgnoresError(err) ==
    /\ completed' = Append(completed, [task |-> tasks[idx], error |-> err])
    /\ IF idx = Len(tasks)
       THEN /\ phase' = "finished"
            /\ doneCalls' = Append(doneCalls, SeriesFinal(err))
            /\ UNCHANGED idx
       ELSE /\ phase' = "call"
            /\ idx' = idx + 1
            /\ UNCHANGED doneCalls

\* The callback async.series gives each task. A task that passes an error ends
\* the series: the remaining tasks are not called and the final callback runs.
SeriesCallback(err) ==
    /\ completed' = Append(completed, [task |-> tasks[idx], error |-> err])
    /\ IF err \/ idx = Len(tasks)
       THEN /\ phase' = "finished"
            /\ doneCalls' = Append(doneCalls, SeriesFinal(err))
            /\ UNCHANGED idx
       ELSE /\ phase' = "call"
            /\ idx' = idx + 1
            /\ UNCHANGED doneCalls
\* The task waits for a callback.
Wait ==
    /\ phase' = "wait"
    /\ UNCHANGED << idx, completed, doneCalls >>
\* The callback returns without calling done: the series stays where it is.
Stay == UNCHANGED << idx, phase, completed, doneCalls >>
\* The process ends (p = "exited") or dies on an uncaught exception ("crashed").
Halt(p) ==
    /\ phase' = p
    /\ UNCHANGED << idx, completed, doneCalls >>

\* logger.fatal logs and terminates the process.
FatalExits == TRUE

\* ------------------------------------------------------------ entry points

deployRelease ==
    /\ phase = "idle"
    /\ tasks' = DeployTasks
    /\ idx' = 1
    /\ phase' = "call"
    /\ UNCHANGED << constructed, options, iter, calls, inflight, answers, log, started, completed,
                    doneCalls, remoteState, localArchive >>

removeRelease ==
    /\ phase = "idle"
    /\ tasks' = RemoveTasks
    /\ idx' = 1
    /\ phase' = "call"
    /\ UNCHANGED << constructed, options, iter, calls, inflight, answers, log, started, completed,
                    doneCalls, remoteState, localArchive >>

\* ----------------------------------------------------------------- connect

connectToRemoteTask ==
    /\ Begin("connectToRemoteTask")
    /\ Start("connectToRemoteTask")
    /\ Logs(<< Line("connectToRemoteTask", "subhead", "Connect to host"),
               Line("connectToRemoteTask", "spinner", "Connecting") >>)
    /\ Issue(Call("connectToRemoteTask", "connect", << >>))
    /\ conn' = "connecting"
    /\ Wait
    /\ UNCHANGED << constructed, options, tasks, iter, folders, current, content, pruning,
                    deleted, localArchive >>

\* remote.connect's success callback.
connectSuccess ==
    \E i \in Pending("connectToRemoteTask", "connect") :
      /\ Answer(i, "ok")
      /\ conn' = "open"
      /\ Logs(<< Line("connectToRemoteTask", "ok", "Connected") >>)
      /\ SeriesCallback(FALSE)
      /\ UNCHANGED << constructed, options, tasks, iter, started, folders, current, content,
                      pruning, deleted,
                      localArchive >>

\* connect's error callback, were it to go on to the next task.
connectErrorCallsDone ==
    \E i \in Pending("connectToRemoteTask", "connect"), error \in {"error", ""} :
      /\ Answer(i, error)
      /\ conn' = "failed"
      /\ Logs(<< >>)
      /\ SeriesCallback(FALSE)
      /\ UNCHANGED << constructed, options, tasks, iter, started, folders, current, content,
                      pruning, deleted,
                      localArchive >>

\* remote.connect's error callback; error is the value it is called with.
connectError ==
    \E i \in Pending("connectToRemoteTask", "connect"), error \in {"error", ""} :
      /\ Answer(i, error)
      /\ conn' = "failed"
      /\ IF error # ""
         THEN /\ Logs(<< Line("connectToRemoteTask", "fatal", error) >>)
              /\ IF FatalExits THEN Halt("exited") ELSE Stay
         ELSE /\ Logs(<< >>)
              /\ Stay
      /\ UNCHANGED << constructed, options, tasks, iter, started, folders, current, content,
                      pruning, deleted,
                      localArchive >>

\* ------------------------------------------------------------------- hooks

\* A hook task gives the user's hook the context and the series callback.
HookTask(t) ==
    /\ Begin(t)
    /\ Start(t)
    /\ Issue(Call(t, "hook", << >>))
    /\ Logs(<< >>)
    /\ Wait
    /\ UNCHANGED << constructed, options, tasks, iter, remoteState, localArchive >>

onBeforeDeployTask == HookTask("onBeforeDeployTask")
onBeforeLinkTask == HookTask("onBeforeLinkTask")
onAfterDeployTask == HookTask("onAfterDeployTask")

\* The hook calls the done it was given, with or without an error.
hookDone ==
    \E i \in inflight, err \in BOOLEAN :
      /\ calls[i].op = "hook"
      /\ Answer(i, IF err THEN "error" ELSE "ok")
      /\ Logs(<< >>)
      /\ SeriesCallback(err)
      /\ UNCHANGED << constructed, options, tasks, iter, started, remoteState, localArchive >>

\* ------------------------------------------------------------- eachSeries

MiddlewareTasks ==
    {"onBeforeDeployExecuteTask", "onBeforeLinkExecuteTask", "onAfterDeployExecuteTask"}
\* The tasks whose iteratee hands itemDone straight to the remote.
ItemTasks ==
    MiddlewareTasks \cup
    {"createFolderTask", "makeDirectoriesWritableTask", "makeFilesExecutableTask"}
SharedTask == "updateSharedSymbolicLinkOnRemoteTask"

\* The remote call the iteratee of task t makes for an item.
ItemCall(t, item) ==
    CASE t = "createFolderTask" ->
           Call(t, "createFolder", << item.key >>)
      [] t = "makeDirectoriesWritableTask" ->
           Call(t, "chmod", << item.key, "ugo+w" >>)
      [] t = "makeFilesExecutableTask" ->
           Call(t, "exec", << "chmod ugo+x", item.key >>)
      [] t = SharedTask ->
           Call(t, "createSymboliclink", << "shared", item.key, item.symlink >>)
      [] OTHER ->
           Call(t, "exec", << item.key >>)
\* The line the iteratee of task t logs before the call.
ItemLine(t, item) ==
    IF t \in MiddlewareTasks
    THEN Line(t, "subhead", item.key)
    ELSE Line(t, "log", item.symlink)

EachStartsTwo(t, list, pre, lines) ==
    /\ iter' = [list |-> list, pos |-> 1]
    /\ Logs(lines \o << ItemLine(t, list[1]) >>)
    /\ calls' = (calls \o pre) \o
                  << ItemCall(t, list[1]), ItemCall(t, list[Len(list)]) >>
    /\ inflight' = inflight \cup {Len(calls) + Len(pre) + 1, Len(calls) + Len(pre) + 2}
    /\ UNCHANGED answers
    /\ Wait

\* async.eachSeries(list, iteratee, final) on a list that is not empty: the
\* iteratee runs for the first item.
EachSeriesStart(t, list, pre, lines) ==
    /\ iter' = [list |-> list, pos |-> 1]
    /\ Logs(lines \o << ItemLine(t, list[1]) >>)
    /\ IssueAfter(pre, ItemCall(t, list[1]))
    /\ Wait

ItemDoneIgnoresError(i, err) ==
    LET t == tasks[idx] IN
    IF iter.pos = Len(iter.list)
    THEN /\ Answer(i, IF err THEN "error" ELSE "ok")
         /\ iter' = NoIter
         /\ Logs(<< Line(t, "ok", "Done") >>)
         /\ SeriesCallback(FALSE)
    ELSE /\ AnswerIssue(i, IF err THEN "error" ELSE "ok", ItemCall(t, iter.list[iter.pos + 1]))
         /\ iter' = [iter EXCEPT !.pos = iter.pos + 1]
         /\ Logs(<< ItemLine(t, iter.list[iter.pos + 1]) >>)
         /\ Stay

\* itemDone of async.eachSeries, called as the callback of call i: an error,
\* or the last item, runs the final callback (which logs and calls the task's
\* done without the error); otherwise the iteratee runs for the next item.
ItemDone(i, err) ==
    LET t == tasks[idx] IN
    IF err \/ iter.pos = Len(iter.list)
    THEN /\ Answer(i, IF err THEN "error" ELSE "ok")
         /\ iter' = NoIter
         /\ Logs(<< Line(t, "ok", "Done") >>)
         /\ SeriesCallback(FALSE)
    ELSE /\ AnswerIssue(i, IF err THEN "error" ELSE "ok", ItemCall(t, iter.list[iter.pos + 1]))
         /\ iter' = [iter EXCEPT !.pos = iter.pos + 1]
         /\ Logs(<< ItemLine(t, iter.list[iter.pos + 1]) >>)
         /\ Stay

\* The remote answers a call whose callback is itemDone itself. The remote
\* gives the done of exec, chmod and createFolder no error (only upload's).
itemDone ==
    \E i \in inflight :
      /\ calls[i].stage \in ItemTasks
      /\ ItemDone(i, FALSE)
      /\ UNCHANGED << constructed, options, tasks, started, remoteState, localArchive >>

\* A remote that does call back with an error: itemDone receives it.
itemError ==
    \E i \in inflight :
      /\ calls[i].stage \in ItemTasks
      /\ ItemDone(i, TRUE)
      /\ UNCHANGED << constructed, options, tasks, started, remoteState, localArchive >>

\* ------------------------------------------------------------- middleware

\* The list a middleware value resolves to: a function is called with the
\* context and its result taken.
Commands(commandsFunction) ==
    IF commandsFunction.kind = "function"
    THEN IF commandsFunction.returnsList THEN List(commandsFunction.items) ELSE Absent
    ELSE commandsFunction

middlewareCallbackExecuteResolvesTwice(t, commandsFunction) ==
    LET resolve == IF commandsFunction.kind = "function"
                   THEN << Call(t, "commandsFunction", << >>),
                           Call(t, "commandsFunction", << >>) >>
                   ELSE << >>
        commands == Commands(commandsFunction)
    IN
    IF Not(commandsFunction)
    THEN /\ NoCall
         /\ Logs(<< >>)
         /\ SeriesCallback(FALSE)
         /\ UNCHANGED iter
    ELSE IF Not(commands) \/ LengthIsZero(commands)
    THEN /\ Record(resolve)
         /\ Logs(<< >>)
         /\ SeriesCallback(FALSE)
         /\ UNCHANGED iter
    ELSE EachSeriesStart(t, commands.items, resolve, << >>)

middlewareCallbackExecute(t, commandsFunction) ==
    LET resolve == IF commandsFunction.kind = "function"
                   THEN << Call(t, "commandsFunction", << >>) >>
                   ELSE << >>
        commands == Commands(commandsFunction)
    IN
    IF Not(commandsFunction)
    THEN /\ NoCall
         /\ Logs(<< >>)
         /\ SeriesCallback(FALSE)
         /\ UNCHANGED iter
    ELSE IF Not(commands) \/ LengthIsZero(commands)
    THEN /\ Record(resolve)
         /\ Logs(<< >>)
         /\ SeriesCallback(FALSE)
         /\ UNCHANGED iter
    ELSE EachSeriesStart(t, commands.items, resolve, << >>)

MiddlewareTask(t, commandsFunction) ==
    /\ Begin(t)
    /\ Start(t)
    /\ middlewareCallbackExecute(t, commandsFunction)
    /\ UNCHANGED << constructed, options, tasks, remoteState, localArchive >>

onBeforeDeployExecuteTask ==
    MiddlewareTask("onBeforeDeployExecuteTask", options.onBeforeDeployExecute)
onBeforeLinkExecuteTask ==
    MiddlewareTask("onBeforeLinkExecuteTask", options.onBeforeLinkExecute)
onAfterDeployExecuteTask ==
    MiddlewareTask("onAfterDeployExecuteTask", options.onAfterDeployExecute)

\* ------------------------------------------------------------- list tasks

\* createFolderTask, makeDirectoriesWritableTask, makeFilesExecutableTask:
\* skipped when the option is absent or has length 0.
ListTask(t, list, subhead) ==
    /\ Begin(t)
    /\ Start(t)
    /\ IF Not(list) \/ LengthIsZero(list)
       THEN /\ NoCall
            /\ Logs(<< >>)
            /\ SeriesCallback(FALSE)
            /\ UNCHANGED iter
       ELSE EachSeriesStart(t, list.items, << >>, << Line(t, "subhead", subhead) >>)
    /\ UNCHANGED << constructed, options, tasks, remoteState, localArchive >>

createFolderTask ==
    ListTask("createFolderTask", options.create, "Create folders on remote")
makeDirectoriesWritableTask ==
    ListTask("makeDirectoriesWritableTask", options.makeWritable,
             "Make folders writable on remote")
makeFilesExecutableTask ==
    ListTask("makeFilesExecutableTask", options.makeExecutable,
             "Make files executables on remote")

\* ---------------------------------------------------------- shared links

updateSharedSymbolicLinkOnRemoteTask ==
    /\ Begin(SharedTask)
    /\ Start(SharedTask)
    /\ IF Not(options.share) \/ LengthIsZero(options.share)
       THEN /\ NoCall
            /\ Logs(<< >>)
            /\ SeriesCallback(FALSE)
            /\ UNCHANGED iter
       ELSE IF Len(options.share.items) = 0
       THEN \* Object.keys gives no key: eachSeries runs its final callback
            /\ NoCall
            /\ Logs(<< Line(SharedTask, "subhead", "Update shared symlink on remote"),
                       Line(SharedTask, "ok", "Done") >>)
            /\ SeriesCallback(FALSE)
            /\ UNCHANGED iter
       ELSE EachSeriesStart(SharedTask, options.share.items, << >>,
                << Line(SharedTask, "subhead", "Update shared symlink on remote") >>)
    /\ UNCHANGED << constructed, options, tasks, remoteState, localArchive >>

\* The callback given to createSymboliclink for a share entry.
sharedSymboliclinkCallback ==
    \E i \in Pending(SharedTask, "createSymboliclink") :
      /\ IF NotMode(iter.list[iter.pos])
         THEN ItemDone(i, FALSE)
         ELSE /\ Logs(<< Line(SharedTask, "log", "chmod") >>)
              /\ AnswerIssue(i, "ok", Call(SharedTask, "chmod",
                     << iter.list[iter.pos].symlink, iter.list[iter.pos].mode >>))
              /\ Stay
              /\ UNCHANGED iter
      /\ UNCHANGED << constructed, options, tasks, started, remoteState, localArchive >>

\* The callback given to chmod for a share entry.
sharedChmodCallback ==
    \E i \in Pending(SharedTask, "chmod") :
      /\ ItemDone(i, FALSE)
      /\ UNCHANGED << constructed, options, tasks, started, remoteState, localArchive >>

\* ---------------------------------------------------------------- transfer

compressReleaseTask ==
    /\ Begin("compressReleaseTask")
    /\ Start("compressReleaseTask")
    /\ IF options.mode # "archive"
       THEN /\ NoCall
            /\ Logs(<< >>)
            /\ SeriesCallback(FALSE)
       ELSE /\ Logs(<< Line("compressReleaseTask", "subhead", "Compress release"),
                       Line("compressReleaseTask", "spinner", "Compressing") >>)
            /\ Issue(Call("compressReleaseTask", "compress", << options.archiveType >>))
            /\ Wait
    /\ UNCHANGED << constructed, options, tasks, iter, remoteState, localArchive >>

\* archiver.compress's success callback.
compressSuccess ==
    \E i \in Pending("compressReleaseTask", "compress") :
      /\ Answer(i, "ok")
      /\ localArchive' = "present"
      /\ Logs(<< Line("compressReleaseTask", "ok", "Archive created") >>)
      /\ SeriesCallback(FALSE)
      /\ UNCHANGED << constructed, options, tasks, iter, started, remoteState >>

\* archiver.compress's error callback: it logs and throws.
compressError ==
    \E i \in Pending("compressReleaseTask", "compress") :
      /\ Answer(i, "error")
      /\ Logs(<< Line("compressReleaseTask", "error", "Error while compressing") >>)
      /\ Halt("crashed")
      /\ UNCHANGED << constructed, options, tasks, iter, started, remoteState, localArchive >>

createReleaseFolderOnRemoteTask ==
    /\ Begin("createReleaseFolderOnRemoteTask")
    /\ Start("createReleaseFolderOnRemoteTask")
    /\ Logs(<< Line("createReleaseFolderOnRemoteTask", "subhead",
                    "Create release folder on remote"),
               Line("createReleaseFolderOnRemoteTask", "log", "release.path") >>)
    /\ Issue(Call("createReleaseFolderOnRemoteTask", "createFolder", << "release.path" >>))
    /\ Wait
    /\ UNCHANGED << constructed, options, tasks, iter, remoteState, localArchive >>

createReleaseFolderCallback ==
    \E i \in Pending("createReleaseFolderOnRemoteTask", "createFolder") :
      /\ Answer(i, "ok")
      /\ folders' = folders \cup {ReleaseTag}
      /\ content' = "empty"
      /\ Logs(<< Line("createReleaseFolderOnRemoteTask", "ok", "Done") >>)
      /\ SeriesCallback(FALSE)
      /\ UNCHANGED << constructed, options, tasks, iter, started, conn, current, pruning,
                      deleted, localArchive >>

uploadArchiveTask ==
    /\ Begin("uploadArchiveTask")
    /\ Start("uploadArchiveTask")
    /\ IF options.mode # "archive"
       THEN /\ NoCall
            /\ Logs(<< >>)
            /\ SeriesCallback(FALSE)
       ELSE /\ Logs(<< Line("uploadArchiveTask", "subhead", "Upload archive to remote"),
                       Line("uploadArchiveTask", "spinner", "Uploading") >>)
            /\ Issue(Call("uploadArchiveTask", "upload", << "archiveName", "release.path" >>))
            /\ Wait
    /\ UNCHANGED << constructed, options, tasks, iter, remoteState, localArchive >>

\* upload's callback without the return after the error is logged.
uploadCallbackNoReturn ==
    \E i \in Pending("uploadArchiveTask", "upload"), error \in BOOLEAN :
      /\ Answer(i, IF error THEN "error" ELSE "ok")
      /\ Logs((IF error THEN << Line("uploadArchiveTask", "error", "error") >> ELSE << >>)
              \o << Line("uploadArchiveTask", "ok", "Done") >>)
      /\ SeriesCallback(FALSE)
      /\ content' = IF error THEN content ELSE "archive"
      /\ UNCHANGED << constructed, options, tasks, iter, started, conn, folders, current,
                      pruning, deleted,
                      localArchive >>

\* The callback given to remote.upload; error is its argument.
uploadCallback ==
    \E i \in Pending("uploadArchiveTask", "upload"), error \in BOOLEAN :
      /\ Answer(i, IF error THEN "error" ELSE "ok")
      /\ IF error
         THEN /\ Logs(<< Line("uploadArchiveTask", "error", "error") >>)
              /\ Stay
              /\ UNCHANGED content
         ELSE /\ Logs(<< Line("uploadArchiveTask", "ok", "Done") >>)
              /\ SeriesCallback(FALSE)
              /\ content' = "archive"
      /\ UNCHANGED << constructed, options, tasks, iter, started, conn, folders, current,
                      pruning, deleted,
                      localArchive >>

\* uploadReleaseTask without its test of the mode.
uploadReleaseTaskUngated ==
    /\ Begin("uploadReleaseTask")
    /\ Start("uploadReleaseTask")
    /\ Logs(<< Line("uploadReleaseTask", "subhead", "Synchronize remote server"),
               Line("uploadReleaseTask", "spinner", "Synchronizing") >>)
    /\ Issue(Call("uploadReleaseTask", "synchronize",
                  << "localPath", "release.path", "synchronizedFolder" >>))
    /\ Wait
    /\ UNCHANGED << constructed, options, tasks, iter, remoteState, localArchive >>

uploadReleaseTask ==
    /\ Begin("uploadReleaseTask")
    /\ Start("uploadReleaseTask")
    /\ IF options.mode # "synchronize"
       THEN /\ NoCall
            /\ Logs(<< >>)
            /\ SeriesCallback(FALSE)
       ELSE /\ Logs(<< Line("uploadReleaseTask", "subhead", "Synchronize remote server"),
                       Line("uploadReleaseTask", "spinner", "Synchronizing") >>)
            /\ Issue(Call("uploadReleaseTask", "synchronize",
                          << "localPath", "release.path", "synchronizedFolder" >>))
            /\ Wait
    /\ UNCHANGED << constructed, options, tasks, iter, remoteState, localArchive >>

synchronizeCallback ==
    \E i \in Pending("uploadReleaseTask", "synchronize") :
      /\ Answer(i, "ok")
      /\ content' = "synced"
      /\ Logs(<< Line("uploadReleaseTask", "ok", "Done") >>)
      /\ SeriesCallback(FALSE)
      /\ UNCHANGED << constructed, options, tasks, iter, started, conn, folders, current,
                      pruning, deleted,
                      localArchive >>

\* untarMap with a third archive type.
UntarMapWithRar ==
    [zip |-> "unzip -q archivePath -d release.path",
     tar |-> "tar -xvf archivePath -C release.path",
     rar |-> "unrar x archivePath release.path"]

\* untarMap: the extraction command of each supported archive type.
UntarMap == [zip |-> "unzip -q archivePath -d release.path",
             tar |-> "tar -xvf archivePath -C release.path"]

\* The command decompressArchiveOnRemoteTask sends: the extraction command
\* (undefined for a type untarMap lacks), then the removal of the archive.
DecompressCommand(archiveType) ==
    << IF archiveType \in DOMAIN UntarMap THEN UntarMap[archiveType] ELSE "undefined",
       "rm archivePath" >>

decompressArchiveOnRemoteTask ==
    /\ Begin("decompressArchiveOnRemoteTask")
    /\ Start("decompressArchiveOnRemoteTask")
    /\ IF options.mode # "archive"
       THEN /\ NoCall
            /\ Logs(<< >>)
            /\ SeriesCallback(FALSE)
       ELSE IF options.archiveType \notin DOMAIN UntarMap /\ FatalExits
       THEN /\ Logs(<< Line("decompressArchiveOnRemoteTask", "subhead",
                            "Decompress archive on remote"),
                       Line("decompressArchiveOnRemoteTask", "spinner", "Decompressing"),
                       Line("decompressArchiveOnRemoteTask", "fatal", "not supported") >>)
            /\ NoCall
            /\ Halt("exited")
       ELSE /\ Logs(<< Line("decompressArchiveOnRemoteTask", "subhead",
                            "Decompress archive on remote"),
                       Line("decompressArchiveOnRemoteTask", "spinner", "Decompressing") >>
                    \o (IF options.archiveType \notin DOMAIN UntarMap
                        THEN << Line("decompressArchiveOnRemoteTask", "fatal",
                                     "not supported") >>
                        ELSE << >>))
            /\ Issue(Call("decompressArchiveOnRemoteTask", "exec",
                          DecompressCommand(options.archiveType)))
            /\ Wait
    /\ UNCHANGED << constructed, options, tasks, iter, remoteState, localArchive >>

decompressCallback ==
    \E i \in Pending("decompressArchiveOnRemoteTask", "exec") :
      /\ Answer(i, "ok")
      /\ content' = "unpacked"
      /\ Logs(<< Line("decompressArchiveOnRemoteTask", "ok", "Done") >>)
      /\ SeriesCallback(FALSE)
      /\ UNCHANGED << constructed, options, tasks, iter, started, conn, folders, current,
                      pruning, deleted,
                      localArchive >>

\* ------------------------------------------------------------ current link

updateCurrentSymbolicLinkOnRemoteTask ==
    /\ Begin("updateCurrentSymbolicLinkOnRemoteTask")
    /\ Start("updateCurrentSymbolicLinkOnRemoteTask")
    /\ Logs(<< Line("updateCurrentSymbolicLinkOnRemoteTask", "subhead",
                    "Update current release symlink on remote") >>)
    /\ Issue(Call("updateCurrentSymbolicLinkOnRemoteTask", "createSymboliclink",
                  << "current", "releasesFolder/release.tag" >>))
    /\ Wait
    /\ UNCHANGED << constructed, options, tasks, iter, remoteState, localArchive >>

updateCurrentCallback ==
    \E i \in Pending("updateCurrentSymbolicLinkOnRemoteTask", "createSymboliclink") :
      /\ Answer(i, "ok")
      /\ current' = ReleaseTag
      /\ Logs(<< Line("updateCurrentSymbolicLinkOnRemoteTask", "ok", "Done") >>)
      /\ SeriesCallback(FALSE)
      /\ UNCHANGED << constructed, options, tasks, iter, started, conn, folders, content,
                      pruning, deleted,
                      localArchive >>

\* ---------------------------------------------------------------- cleanup

\* The folders removeOldFolders deletes: all but the `keep` last in tag order.
OldFolders(fs, keep) ==
    { f \in fs : Cardinality({ g \in fs : g > f }) >= keep }

KeepCountNoClamp(releasesToKeep) == releasesToKeep
\* The keep count remoteCleanupTask uses: releasesToKeep, raised to 1.
KeepCount(releasesToKeep) == IF releasesToKeep < 1 THEN 1 ELSE releasesToKeep

remoteCleanupTask ==
    /\ Begin("remoteCleanupTask")
    /\ Start("remoteCleanupTask")
    /\ Logs(<< Line("remoteCleanupTask", "subhead", "Remove old builds on remote"),
               Line("remoteCleanupTask", "spinner", "Removing") >>)
    /\ options' = [options EXCEPT !.releasesToKeep = KeepCount(options.releasesToKeep)]
    /\ Issue(Call("remoteCleanupTask", "removeOldFolders",
                  << KeepCount(options.releasesToKeep) >>))
    /\ pruning' = OldFolders(folders, KeepCount(options.releasesToKeep))
    /\ Wait
    /\ UNCHANGED << constructed, tasks, iter, conn, folders, current, content,
                    deleted, localArchive >>

\* The remote deletes one of the old folders.
removeOldFoldersStep ==
    \E f \in pruning :
      /\ Pending("remoteCleanupTask", "removeOldFolders") # {}
      /\ folders' = folders \ {f}
      /\ pruning' = pruning \ {f}
      /\ deleted' = deleted \cup {f}
      /\ UNCHANGED << constructed, options, tasks, idx, phase, iter, calls, inflight, answers, log,
                      started, completed, doneCalls, conn, current, content,
                      localArchive >>

removeOldFoldersCallback ==
    \E i \in Pending("remoteCleanupTask", "removeOldFolders") :
      /\ pruning = {}
      /\ Answer(i, "ok")
      /\ Logs(<< Line("remoteCleanupTask", "ok", "Done") >>)
      /\ SeriesCallback(FALSE)
      /\ UNCHANGED << constructed, options, tasks, iter, started, remoteState, localArchive >>

\* fs.unlink is given no callback: the request is taken as the deletion.
deleteLocalArchiveTask ==
    /\ Begin("deleteLocalArchiveTask")
    /\ Start("deleteLocalArchiveTask")
    /\ IF options.mode # "archive" \/ ~options.deleteLocalArchiveAfterDeployment
       THEN /\ Logs(<< >>)
            /\ UNCHANGED localArchive
       ELSE /\ Logs(<< Line("deleteLocalArchiveTask", "subhead", "Delete local archive"),
                       Line("deleteLocalArchiveTask", "ok", "Done") >>)
            /\ localArchive' = "deleted"
    /\ NoCall
    /\ SeriesCallback(FALSE)
    /\ UNCHANGED << constructed, options, tasks, iter, remoteState >>

\* ------------------------------------------------------------------ close

closeConnectionTask ==
    /\ Begin("closeConnectionTask")
    /\ Start("closeConnectionTask")
    /\ Logs(<< >>)
    /\ Issue(Call("closeConnectionTask", "close", << >>))
    /\ conn' = "closing"
    /\ Wait
    /\ UNCHANGED << constructed, options, tasks, iter, folders, current, content, pruning,
                    deleted, localArchive >>

\* The connection closes: connect's close callback logs, and close calls the
\* done it was given.
closeCallback ==
    \E i \in Pending("closeConnectionTask", "close") :
      /\ Answer(i, "ok")
      /\ conn' = "closed"
      /\ Logs(<< Line("connectToRemoteTask", "subhead", "Closed from host") >>)
      /\ SeriesCallback(FALSE)
      /\ UNCHANGED << constructed, options, tasks, iter, started, folders, current, content,
                      pruning, deleted,
                      localArchive >>

\* ---------------------------------------------------------- removeRelease

removeReleaseTaskReleaseOnly ==
    /\ Begin("removeReleaseTask")
    /\ Start("removeReleaseTask")
    /\ Logs(<< Line("removeReleaseTask", "subhead", "Remove releases on remote") >>)
    /\ Issue(Call("removeReleaseTask", "exec", << "rm -rf release.path" >>))
    /\ Wait
    /\ UNCHANGED << constructed, options, tasks, iter, remoteState, localArchive >>

removeReleaseTask ==
    /\ Begin("removeReleaseTask")
    /\ Start("removeReleaseTask")
    /\ Logs(<< Line("removeReleaseTask", "subhead", "Remove releases on remote") >>)
    /\ Issue(Call("removeReleaseTask", "exec", << "rm -rf deployPath" >>))
    /\ Wait
    /\ UNCHANGED << constructed, options, tasks, iter, remoteState, localArchive >>

removeReleaseCallback ==
    \E i \in Pending("removeReleaseTask", "exec") :
      /\ Answer(i, "ok")
      /\ folders' = {}
      /\ current' = NoRelease
      /\ content' = "none"
      /\ Logs(<< Line("removeReleaseTask", "ok", "Done") >>)
      /\ SeriesCallback(FALSE)
      /\ deleted' = deleted \cup folders
      /\ UNCHANGED << constructed, options, tasks, iter, started, conn, pruning,
                      localArchive >>

\* ---------------------------------------------------------- remote errors

RemoteOps ==
    {"exec", "upload", "synchronize", "createSymboliclink", "chmod",
     "createFolder", "removeOldFolders"}

remoteErrorCleansUp ==
    \E i \in inflight :
      /\ calls[i].op \in RemoteOps \ {"upload"}
      /\ AnswerIssue(i, "failed",
                     Call("removeReleaseTask", "exec", << "rm -rf deployPath" >>))
      /\ Logs(<< Line(calls[i].stage, "error", "Connection error") >>)
      /\ pruning' = {}
      /\ Stay
      /\ UNCHANGED << constructed, options, tasks, iter, started, conn, folders, current,
                      content, deleted, localArchive >>

\* A remote command fails: the remote reports it to the onError handler given
\* to createRemote, which logs; the callback of the call never fires.
remoteError ==
    \E i \in inflight :
      /\ calls[i].op \in RemoteOps \ {"upload"}
      /\ Answer(i, "failed")
      /\ Logs(<< Line(calls[i].stage, "error", "Connection error") >>)
      /\ pruning' = {}
      /\ Stay
      /\ UNCHANGED << constructed, options, tasks, iter, started, conn, folders, current,
                      content, deleted, localArchive >>

Next ==
    \/ deployRelease
    \/ removeRelease
    \/ connectToRemoteTask
    \/ connectSuccess
    \/ connectError
    \/ onBeforeDeployTask
    \/ onBeforeLinkTask
    \/ onAfterDeployTask
    \/ hookDone
    \/ onBeforeDeployExecuteTask
    \/ onBeforeLinkExecuteTask
    \/ onAfterDeployExecuteTask
    \/ itemDone
    \/ createFolderTask
    \/ makeDirectoriesWritableTask
    \/ makeFilesExecutableTask
    \/ updateSharedSymbolicLinkOnRemoteTask
    \/ sharedSymboliclinkCallback
    \/ sharedChmodCallback
    \/ compressReleaseTask
    \/ compressSuccess
    \/ compressError
    \/ createReleaseFolderOnRemoteTask
    \/ createReleaseFolderCallback
    \/ uploadArchiveTask
    \/ uploadCallback
    \/ uploadReleaseTask
    \/ synchronizeCallback
    \/ decompressArchiveOnRemoteTask
    \/ decompressCallback
    \/ updateCurrentSymbolicLinkOnRemoteTask
    \/ updateCurrentCallback
    \/ remoteCleanupTask
    \/ removeOldFoldersStep
    \/ removeOldFoldersCallback
    \/ deleteLocalArchiveTask
    \/ closeConnectionTask
    \/ closeCallback
    \/ removeReleaseTask
    \/ removeReleaseCallback
    \/ remoteError

Spec == Init /\ [][Next]_vars

\* The same program with a remote that may hand an error to the callbacks
\* it is given.
NextItemError ==
    \/ Next
    \/ itemError

SpecItemError == Init /\ [][NextItemError]_vars

\* ----------------------------------------------------------------- claims

\* Task t called its done (with or without an error).
Completed(t) == \E k \in 1 .. Len(completed) : completed[k].task = t
Started(t) == \E k \in 1 .. Len(started) : started[k] = t
\* The calls task t made with operation op.
CallsOf(t, op) == { i \in 1 .. Len(calls) : calls[i].stage = t /\ calls[i].op = op }
CallsBy(t) == { i \in 1 .. Len(calls) : calls[i].stage = t }
CallsWith(op) == { i \in 1 .. Len(calls) : calls[i].op = op }
LinesOf(t) == { k \in 1 .. Len(log) : log[k].stage = t }
\* The results the calls of task t with operation op were answered with.
Results(t, op) ==
    { answers[k].result : k \in { j \in 1 .. Len(answers) : answers[j].call \in CallsOf(t, op) } }
IsDeploy == Len(tasks) = 20
IsRemove == Len(tasks) = 3

\* The order of the stages of a deploy, as the stage list states it.
StageOrder ==
    << "connectToRemoteTask", "onBeforeDeployTask", "onBeforeDeployExecuteTask",
       "compressReleaseTask", "createReleaseFolderOnRemoteTask", "uploadArchiveTask",
       "uploadReleaseTask", "decompressArchiveOnRemoteTask", "onBeforeLinkTask",
       "onBeforeLinkExecuteTask", "updateSharedSymbolicLinkOnRemoteTask",
       "createFolderTask", "makeDirectoriesWritableTask", "makeFilesExecutableTask",
       "updateCurrentSymbolicLinkOnRemoteTask", "onAfterDeployTask",
       "onAfterDeployExecuteTask", "remoteCleanupTask", "deleteLocalArchiveTask",
       "closeConnectionTask" >>

\* C1: in a deploy the stages start in the fixed order of the stage list; a
\* stage starts only when every stage before it has signalled completion; the
\* release folder has been created before upload or synchronize is issued; in
\* archive mode the unpack has completed before a stage issues any
\* createSymboliclink.
C1_StagesInOrder ==
    IsDeploy =>
      /\ Len(started) <= Len(StageOrder)
      /\ \A k \in 1 .. Len(started) : started[k] = StageOrder[k]
      /\ Len(completed) <= Len(started)
      /\ Len(started) <= Len(completed) + 1
      /\ \A k \in 1 .. Len(completed) : completed[k].task = started[k]
      /\ \A i \in CallsWith("upload") \cup CallsWith("synchronize") :
            /\ Completed("createReleaseFolderOnRemoteTask")
            /\ ReleaseTag \in folders
      /\ \A i \in CallsWith("createSymboliclink") :
            options.mode = "archive" =>
              /\ Completed("decompressArchiveOnRemoteTask")
              /\ content = "unpacked"

\* An archive deploy that ran all twenty stages and made shared symlinks.
C1_Witness ==
    /\ IsDeploy
    /\ phase = "finished"
    /\ Len(completed) = 20
    /\ options.mode = "archive"
    /\ CallsOf(SharedTask, "createSymboliclink") # {}
    /\ CallsOf("updateCurrentSymbolicLinkOnRemoteTask", "createSymboliclink") # {}

\* C2: removeOldFolders is issued only once the current symlink has been
\* swapped to the new release, with a keep count of at least 1, and from then
\* on (while the remote deletes, and after) the release the current symlink
\* points to is on the remote.
C2_CurrentSurvivesCleanup ==
    \A i \in CallsWith("removeOldFolders") :
      /\ Completed("updateCurrentSymbolicLinkOnRemoteTask")
      /\ current = ReleaseTag
      /\ calls[i].arg[1] >= 1
      /\ current \in folders

\* The remote is in the middle of the cleanup: it has deleted a release and
\* has more to delete.
C2_Witness ==
    /\ Pending("remoteCleanupTask", "removeOldFolders") # {}
    /\ pruning # {}
    /\ deleted # {}
    /\ current \in folders

\* C3: a run calls connect exactly once; a stage issues a remote operation
\* only after connect's success callback fired and never after close was
\* requested.
C3_OneConnection ==
    /\ Cardinality(CallsWith("connect")) <= 1
    /\ started # << >> => Cardinality(CallsWith("connect")) = 1
    /\ \A i \in 1 .. Len(calls) :
         calls[i].op \in RemoteOps =>
           /\ Len(completed) >= 1
           /\ completed[1] = [task |-> "connectToRemoteTask", error |-> FALSE]
           /\ \E j \in 1 .. (i - 1) : calls[j].op = "connect"
           /\ \A j \in 1 .. (i - 1) : calls[j].op # "close"
           /\ i \in inflight => conn = "open"

\* A removal that ran to its end: connected, removed, closed.
C3_Witness ==
    /\ IsRemove
    /\ phase = "finished"
    /\ conn = "closed"
    /\ CallsOf("removeReleaseTask", "exec") # {}

\* Nothing is outstanding: no task is about to be called and no callback can
\* fire any more, so the run has come to its end.
RunOver == tasks # << >> /\ phase # "call" /\ inflight = {}

\* C4, as stated: whatever the stages' outcomes, the run ends with the
\* caller's done invoked exactly once, with no error argument.
C4_DoneUnconditionally ==
    RunOver => /\ Len(doneCalls) = 1
               /\ doneCalls[1] = << >>

\* C4, amended: done is invoked at most once and never with an argument; it
\* is invoked exactly when the series ends, which is when the last task has
\* signalled completion or a task has handed its callback an error; after a
\* connect failure, an upload failure or a compress failure it is not invoked.
C4_DoneOnlyWhenSeriesEnds ==
    /\ Len(doneCalls) <= 1
    /\ \A k \in 1 .. Len(doneCalls) : doneCalls[k] = << >>
    /\ Len(doneCalls) = 1 <=> phase = "finished"
    /\ phase = "finished" <=>
         /\ completed # << >>
         /\ \/ Len(completed) = Len(tasks)
            \/ completed[Len(completed)].error
    /\ conn = "failed" => doneCalls = << >>
    /\ "error" \in Results("uploadArchiveTask", "upload") => doneCalls = << >>
    /\ "error" \in Results("compressReleaseTask", "compress") => doneCalls = << >>

\* The upload failed and the run has come to its end without done.
C4_Witness ==
    /\ RunOver
    /\ "error" \in Results("uploadArchiveTask", "upload")
    /\ doneCalls = << >>

\* The results connect's error callback was called with.
ConnectErrors == Results("connectToRemoteTask", "connect") \ {"ok"}
FatalLogged(t) == \E k \in LinesOf(t) : log[k].level = "fatal"

\* What C5 says of every connect failure but the report.
ConnectFailureAborts ==
    /\ completed = << >>
    /\ started = << "connectToRemoteTask" >>
    /\ \A i \in 1 .. Len(calls) : calls[i].op \notin RemoteOps \cup {"close"}
    /\ doneCalls = << >>

\* C5, as stated: when connect's error callback fires, with any error value,
\* the connect stage never completes, no later stage starts, no remote
\* operation, cleanup or close is issued, and the failure is reported as fatal.
C5_ConnectFailureFatal ==
    ConnectErrors # {} =>
      /\ ConnectFailureAborts
      /\ FatalLogged("connectToRemoteTask")

\* C5, amended: the same, but the failure is reported as fatal (and the
\* process ended) exactly when the error value is not empty; with an empty
\* error value nothing is reported and the run stays where it is.
C5_ConnectFailureFatalIfTruthy ==
    ConnectErrors # {} =>
      /\ ConnectFailureAborts
      /\ FatalLogged("connectToRemoteTask") <=> "error" \in ConnectErrors
      /\ phase = IF "error" \in ConnectErrors THEN "exited" ELSE "wait"

\* connect's error callback fired with an empty error value.
C5_Witness ==
    /\ "" \in ConnectErrors
    /\ conn = "failed"
    /\ RunOver

\* C6: an upload error is only logged and the upload stage does not call
\* done, so no later stage starts; a compression error keeps the compress
\* stage from calling done and no later stage starts.
C6_FailedStageNeverCompletes ==
    /\ "error" \in Results("uploadArchiveTask", "upload") =>
         /\ ~Completed("uploadArchiveTask")
         /\ started[Len(started)] = "uploadArchiveTask"
         /\ \E k \in LinesOf("uploadArchiveTask") : log[k].level = "error"
         /\ ~FatalLogged("uploadArchiveTask")
         /\ phase = "wait"
         /\ doneCalls = << >>
    /\ "error" \in Results("compressReleaseTask", "compress") =>
         /\ ~Completed("compressReleaseTask")
         /\ started[Len(started)] = "compressReleaseTask"
         /\ doneCalls = << >>

\* The upload callback carried an error.
C6_Witness ==
    /\ "error" \in Results("uploadArchiveTask", "upload")
    /\ content = "empty"
    /\ RunOver

\* C7: in archive mode with an archive type other than zip or tar the unpack
\* stage reports the type as not supported, issues no remote exec and no
\* later stage runs; for zip and tar the unpack stage issues exactly one
\* exec: the extraction command, then the deletion of the uploaded archive.
C7_UnsupportedArchiveType ==
    options.mode = "archive" /\ Started("decompressArchiveOnRemoteTask") =>
      IF options.archiveType \notin {"zip", "tar"}
      THEN /\ CallsBy("decompressArchiveOnRemoteTask") = {}
           /\ FatalLogged("decompressArchiveOnRemoteTask")
           /\ ~Completed("decompressArchiveOnRemoteTask")
           /\ started[Len(started)] = "decompressArchiveOnRemoteTask"
           /\ CallsOf("updateCurrentSymbolicLinkOnRemoteTask", "createSymboliclink") = {}
           /\ CallsWith("removeOldFolders") = {}
      ELSE /\ Cardinality(CallsBy("decompressArchiveOnRemoteTask")) = 1
           /\ \A i \in CallsBy("decompressArchiveOnRemoteTask") :
                /\ calls[i].op = "exec"
                /\ calls[i].arg =
                     << IF options.archiveType = "zip"
                        THEN "unzip -q archivePath -d release.path"
                        ELSE "tar -xvf archivePath -C release.path",
                        "rm archivePath" >>

\* The unpack stage met an archive type it does not support.
C7_Witness ==
    /\ options.mode = "archive"
    /\ options.archiveType = "rar"
    /\ Started("decompressArchiveOnRemoteTask")
    /\ content = "archive"

TransferCalls(t) == Cardinality(CallsBy(t))

\* C8: the transfer stages are gated by the mode alone. In synchronize mode
\* compress, upload and unpack make no call, log nothing and complete at
\* once; in archive mode synchronize does; once the unpack stage is past,
\* the run has made exactly the calls of its mode's path, and none for a mode
\* that is neither.
C8_TransferGatedByMode ==
    /\ \A t \in {"compressReleaseTask", "uploadArchiveTask", "decompressArchiveOnRemoteTask"} :
         options.mode # "archive" =>
           /\ CallsBy(t) = {}
           /\ LinesOf(t) = {}
           /\ Started(t) => Completed(t)
    /\ options.mode # "synchronize" =>
         /\ CallsBy("uploadReleaseTask") = {}
         /\ LinesOf("uploadReleaseTask") = {}
         /\ Started("uploadReleaseTask") => Completed("uploadReleaseTask")
    /\ Completed("decompressArchiveOnRemoteTask") =>
         /\ TransferCalls("uploadArchiveTask") = IF options.mode = "archive" THEN 1 ELSE 0
         /\ TransferCalls("decompressArchiveOnRemoteTask") = IF options.mode = "archive" THEN 1 ELSE 0
         /\ TransferCalls("compressReleaseTask") = IF options.mode = "archive" THEN 1 ELSE 0
         /\ TransferCalls("uploadReleaseTask") = IF options.mode = "synchronize" THEN 1 ELSE 0
         /\ content = CASE options.mode = "archive" -> "unpacked"
                        [] options.mode = "synchronize" -> "synced"
                        [] OTHER -> "empty"

\* A synchronize deploy past its unpack stage.
C8_Witness ==
    /\ options.mode = "synchronize"
    /\ Completed("decompressArchiveOnRemoteTask")
    /\ content = "synced"

\* The option is absent or empty.
Empty(v) == v.kind = "absent" \/ Len(v.items) = 0

\* C9: when share, create, makeWritable or makeExecutable is absent or empty
\* its stage makes no remote call and logs nothing.
C9_EmptyOptionIsSilent ==
    /\ Empty(options.share) =>
         CallsBy(SharedTask) = {} /\ LinesOf(SharedTask) = {}
    /\ Empty(options.create) =>
         CallsBy("createFolderTask") = {} /\ LinesOf("createFolderTask") = {}
    /\ Empty(options.makeWritable) =>
         CallsBy("makeDirectoriesWritableTask") = {}
         /\ LinesOf("makeDirectoriesWritableTask") = {}
    /\ Empty(options.makeExecutable) =>
         CallsBy("makeFilesExecutableTask") = {}
         /\ LinesOf("makeFilesExecutableTask") = {}

\* C10: the local archive is deleted exactly when the run has reached the
\* delete-local-archive stage in archive mode with the flag set, and then the
\* remote unpack of the archive has completed.
C10_LocalArchiveDeletedAfterUnpack ==
    /\ localArchive = "deleted" <=>
         /\ Started("deleteLocalArchiveTask")
         /\ options.mode = "archive"
         /\ options.deleteLocalArchiveAfterDeployment
    /\ localArchive = "deleted" =>
         /\ Completed("decompressArchiveOnRemoteTask")
         /\ "ok" \in Results("decompressArchiveOnRemoteTask", "exec")
         /\ content = "unpacked"

\* The local archive has been deleted.
C10_Witness ==
    /\ localArchive = "deleted"
    /\ Completed("deleteLocalArchiveTask")

\* ------------------------------------------------------------------ hooks

HookTasks == {"onBeforeDeployTask", "onBeforeLinkTask", "onAfterDeployTask"}
\* The command-list stage the stage list puts right after a hook.
Paired(h) ==
    CASE h = "onBeforeDeployTask" -> "onBeforeDeployExecuteTask"
      [] h = "onBeforeLinkTask" -> "onBeforeLinkExecuteTask"
      [] h = "onAfterDeployTask" -> "onAfterDeployExecuteTask"
TimesStarted(t) == Cardinality({ k \in 1 .. Len(started) : started[k] = t })
\* Call i was answered with result r.
Answered(i, r) == \E k \in 1 .. Len(answers) : answers[k].call = i /\ answers[k].result = r
\* The series went on from hook h to its command-list stage, once.
Advanced(h) ==
    \/ TimesStarted(Paired(h)) = 1
    \/ TimesStarted(Paired(h)) = 0 /\ phase = "call" /\ tasks[idx] = Paired(h)
\* The run stands at the hook whose call i is: nothing later has started, no
\* close was requested and the caller's done was not called.
StalledAt(i) ==
    /\ phase = "wait"
    /\ inflight = {i}
    /\ started[Len(started)] = calls[i].stage
    /\ CallsWith("close") = {}
    /\ conn = "open"
    /\ doneCalls = << >>

AllReleases == folders \cup deleted
\* The n most recently created of a set of releases (tags sort in creation
\* order).
MostRecent(fs, n) == { f \in fs : Cardinality({ g \in fs : g > f }) < n }
\* The number of releases to keep, from the option as it was configured.
ConfiguredKeep == IF constructed.releasesToKeep > 1 THEN constructed.releasesToKeep ELSE 1
\* deployRelease ran all its stages.
DeploySucceeded == IsDeploy /\ phase = "finished" /\ Len(completed) = Len(tasks)

\* The run of the example: an archive deploy with tar and releasesToKeep 2
\* of release 4 onto a remote that held releases 1, 2 and 3.
ExampleRun ==
    /\ DeploySucceeded
    /\ constructed.releasesToKeep = 2
    /\ options.mode = "archive"
    /\ options.archiveType = "tar"
    /\ ReleaseTag = 4
    /\ AllReleases = {1, 2, 3, 4}
\* The rule: the keep count is max(1, releasesToKeep), and a deploy that ran
\* all its stages leaves exactly the keep count most recently created
\* releases, the new one among them and current; the rest was deleted.
RetentionRule ==
    /\ \A i \in CallsWith("removeOldFolders") : calls[i].arg = << ConfiguredKeep >>
    /\ DeploySucceeded =>
         /\ Cardinality(CallsWith("removeOldFolders")) = 1
         /\ ReleaseTag \in AllReleases
         /\ folders = MostRecent(AllReleases, ConfiguredKeep)
         /\ deleted = AllReleases \ MostRecent(AllReleases, ConfiguredKeep)
         /\ current = ReleaseTag
         /\ current \in folders

RemoveCalls ==
    << Call("connectToRemoteTask", "connect", << >>),
       Call("removeReleaseTask", "exec", << "rm -rf deployPath" >>),
       Call("closeConnectionTask", "close", << >>) >>

\* C13: removeRelease starts connect, the removal and close, in this order and
\* nothing else (no deploy stage, no hook); its remote calls are connect, then
\* one exec of rm -rf on the deploy root, then close, and no other; the exec is
\* issued only once connected, close only once the exec was answered; a
\* removal that ended made all three calls.
C13_RemoveReleaseTeardown ==
    IsRemove =>
      /\ Len(started) <= Len(RemoveTasks)
      /\ \A k \in 1 .. Len(started) : started[k] = RemoveTasks[k]
      /\ Len(calls) <= Len(RemoveCalls)
      /\ \A i \in 1 .. Len(calls) : calls[i] = RemoveCalls[i]
      /\ \A i \in 2 .. Len(calls) : (i - 1) \notin inflight
      /\ Len(calls) >= 2 => Answered(1, "ok")
      /\ Completed("removeReleaseTask") => folders = {} /\ current = NoRelease
      /\ phase = "finished" => Len(calls) = Len(RemoveCalls) /\ conn = "closed"

\* A removal that ended: three calls were made and what the remote held is gone.
C13_Witness ==
    /\ IsRemove
    /\ phase = "finished"
    /\ Len(calls) = 3
    /\ deleted = {1, 2}
    /\ folders = {}

\* ------------------------------------------------------------ list stages

ListStages == ItemTasks \cup {SharedTask}
\* The list stage t works through.
ListOf(t) ==
    CASE t = "createFolderTask" -> options.create.items
      [] t = "makeDirectoriesWritableTask" -> options.makeWritable.items
      [] t = "makeFilesExecutableTask" -> options.makeExecutable.items
      [] t = SharedTask -> options.share.items
      [] t = "onBeforeDeployExecuteTask" -> Commands(options.onBeforeDeployExecute).items
      [] t = "onBeforeLinkExecuteTask" -> Commands(options.onBeforeLinkExecute).items
      [] t = "onAfterDeployExecuteTask" -> Commands(options.onAfterDeployExecute).items
\* The call that opens an item of stage t (for a share entry the symlink; its
\* chmod follows within the same item).
OpensItem(c, t) ==
    /\ c.stage = t
    /\ c.op \in RemoteOps
    /\ t = SharedTask => c.op = "createSymboliclink"
\* The remote calls of stage t.
RemoteCallsBy(t) == { i \in CallsBy(t) : calls[i].op \in RemoteOps }
ItemCallsOf(t) == SelectSeq(calls, LAMBDA c : OpensItem(c, t))
\* The calls made for the items of stage t are those of the first items of
\* its list, in list order.
InListOrder(t) ==
    LET made == ItemCallsOf(t)
        list == ListOf(t)
    IN  /\ Len(made) <= Len(list)
        /\ \A k \in 1 .. Len(made) : made[k] = ItemCall(t, list[k])

RECURSIVE ShareCalls(_, _)
ShareCalls(list, falsyToo) ==
    IF list = << >> THEN << >>
    ELSE LET entry == Head(list)
             chmod == entry.hasMode /\ (falsyToo \/ entry.mode # "")
         IN  << Call(SharedTask, "createSymboliclink",
                     << "shared", entry.key, entry.symlink >>) >>
             \o (IF chmod
                 THEN << Call(SharedTask, "chmod", << entry.symlink, entry.mode >>) >>
                 ELSE << >>)
             \o ShareCalls(Tail(list), falsyToo)
SharedCallsMade == SelectSeq(calls, LAMBDA c : c.stage = SharedTask)
\* The stage's calls so far are the first of `expected`, and all of them once
\* the stage has signalled completion.
SharedCallsAre(expected) ==
    LET made == SharedCallsMade
    IN  /\ Len(made) <= Len(expected)
        /\ \A k \in 1 .. Len(made) : made[k] = expected[k]
        /\ Completed(SharedTask) => Len(made) = Len(expected)

\* C15 as stated: for every share entry the stage calls createSymboliclink
\* and then chmod on the link if and only if the entry gives a mode, whatever
\* the mode's value (a falsy one included); no chmod for an entry without mode.
C15_ChmodIffModeGiven ==
    SharedCallsAre(ShareCalls(options.share.items, TRUE))

\* What the stage does: the chmod follows the symlink if and only if the entry
\* gives a mode that is not falsy (`!mode`).
SharedChmodIffModeTruthy ==
    SharedCallsAre(ShareCalls(options.share.items, FALSE))

\* -------------------------------------------------------------- middleware

\* The option a command-list stage takes its commands from.
MiddlewareOf(t) ==
    CASE t = "onBeforeDeployExecuteTask" -> options.onBeforeDeployExecute
      [] t = "onBeforeLinkExecuteTask" -> options.onBeforeLinkExecute
      [] t = "onAfterDeployExecuteTask" -> options.onAfterDeployExecute
TimesCompleted(t) == Cardinality({ k \in 1 .. Len(completed) : completed[k].task = t })

ItemErrors(t) == { i \in RemoteCallsBy(t) : Answered(i, "error") }
\* Stage t signalled completion, once and without an error, and logged Done.
CompletedAsSuccess(t) ==
    /\ TimesCompleted(t) = 1
    /\ \A k \in 1 .. Len(completed) : completed[k].task = t => ~completed[k].error
    /\ \E k \in LinesOf(t) : log[k].level = "ok" /\ log[k].text = "Done"

\* C17 as stated: an item whose callback got an error changes nothing: a list
\* stage that has signalled completion did so without an error and has
\* processed every item of its list.
C17_ItemFailureLikeSuccess ==
    \A t \in ItemTasks :
      Completed(t) /\ ListOf(t) # << >> =>
        /\ CompletedAsSuccess(t)
        /\ Len(ItemCallsOf(t)) = Len(ListOf(t))

\* C17, amended: an item whose callback got an error ends its list stage: no
\* call is made for the remaining items, the stage logs Done and signals
\* completion without an error, so that the series goes on with the next stage;
\* a stage that signalled completion without such an item processed every item.
C17_ItemFailureEndsStage ==
    \A t \in ItemTasks :
      /\ InListOrder(t)
      /\ Cardinality(ItemErrors(t)) <= 1
      /\ \A i \in ItemErrors(t) :
           /\ \A j \in RemoteCallsBy(t) : j <= i
           /\ CompletedAsSuccess(t)
           /\ \E k \in 1 .. (idx - 1) : tasks[k] = t
      /\ Completed(t) /\ ListOf(t) # << >> =>
           /\ CompletedAsSuccess(t)
           /\ ItemErrors(t) = {} => Len(ItemCallsOf(t)) = Len(ListOf(t))

\* The callback of the first of two folders got an error: the second folder
\* was never created, and the deploy ran all its stages.
C17_Witness ==
    /\ ItemErrors("createFolderTask") # {}
    /\ Len(ListOf("createFolderTask")) = 2
    /\ Len(ItemCallsOf("createFolderTask")) = 1
    /\ DeploySucceeded

\* ------------------------------------------------------------ no rollback

\* The deploy is past the creation of the release folder and the swap of the
\* current symlink has not completed.
BetweenCreationAndSwap ==
    /\ IsDeploy
    /\ Completed("createReleaseFolderOnRemoteTask")
    /\ ~Completed("updateCurrentSymbolicLinkOnRemoteTask")
\* The remote deletes the run has asked for: a prune, or an exec of rm.
DeleteCalls == CallsWith("removeOldFolders") \cup CallsOf("removeReleaseTask", "exec")

\* C18: wherever a deploy stands or stops between the creation of the release
\* folder and the swap, the current symlink has its previous target (the newest
\* of the releases there were before), no release was pruned, the new release
\* folder is in place, no remote delete was issued and close was not requested:
\* the connection is open.
C18_NoRollback ==
    BetweenCreationAndSwap =>
      /\ current = Newest(folders \ {ReleaseTag})
      /\ current # ReleaseTag
      /\ deleted = {}
      /\ ReleaseTag \in folders
      /\ DeleteCalls = {}
      /\ CallsWith("close") = {}
      /\ conn = "open"

\* The deploy stopped between creation and swap: a remote call of the
\* shared-link stage failed and nothing is outstanding; an older release is
\* still current.
C18_Witness ==
    /\ BetweenCreationAndSwap
    /\ RunOver
    /\ "failed" \in Results(SharedTask, "createSymboliclink")
    /\ current # NoRelease
    /\ content # "none"

\* ---------------------------------------------------------------- options

\* C19: no stage changes a field of the options: at every point of a run the
\* options are those the instance was constructed with, releasesToKeep
\* included, whatever its configured value.
C19_OptionsImmutable == options = constructed

\* ------------------------------------------------------------------- done

\* C20: a deploy whose done was called has requested close on the connection
\* and has completed the swap of the current symlink and the retention
\* cleanup, also when a task handed an error to the series.
C20_DoneOnlyAfterCloseAndCleanup ==
    IsDeploy /\ doneCalls # << >> =>
      /\ CallsWith("close") # {}
      /\ conn = "closed"
      /\ Completed("updateCurrentSymbolicLinkOnRemoteTask")
      /\ Completed("remoteCleanupTask")
====
